---- MODULE Spec2Model ----
(***************************************************************************)
(* Model of database/postgresql.py: the CNPJ identifier codec and the      *)
(* PostgreSQLDatabase repository (get_company / get_partners over _select).*)
(*                                                                         *)
(* A Python str is a sequence of one-character strings.  A row cell is a   *)
(* record [kind, repr]: kind is "str", "int" or "null" (Python None) and   *)
(* repr is the text str() gives for the value.                             *)
(***************************************************************************)
EXTENDS Integers, Sequences, FiniteSets, TLC

(* ---------------------------- bounds ----------------------------------- *)
\* most rows one query yields
MaxRows == 3
\* connections the server accepts at once; connect() raises beyond it
MaxConnections == 2
\* most digits an input carries beyond the 14 of a full identifier
MaxExtra == 2

(* ------------------------ program constants ---------------------------- *)
\* zfill(14) in _cnpj_only_digits, len(...) > 14 in _is_valid_cnpj
CnpjLen == 14
\* highest index read by _format_company_data is formatted_data[38]
CompanyCols == 39
\* highest index read by _format_partner_data is formatted_data[10]
PartnerCols == 11

(* ------------------------ strings and slices --------------------------- *)
Digits == {"0", "1", "2", "3", "4", "5", "6", "7", "8", "9"}

Min(a, b) == IF a < b THEN a ELSE b

\* int(num) for one decimal digit character
DigitVal(c) ==
    CASE c = "0" -> 0 [] c = "1" -> 1 [] c = "2" -> 2 [] c = "3" -> 3
      [] c = "4" -> 4 [] c = "5" -> 5 [] c = "6" -> 6 [] c = "7" -> 7
      [] c = "8" -> 8 [] c = "9" -> 9

DigitChar == <<"0", "1", "2", "3", "4", "5", "6", "7", "8", "9">>

\* str(n) for a natural number n
RECURSIVE Str(_)
Str(n) == IF n < 10 THEN <<DigitChar[n + 1]>>
          ELSE Str(n \div 10) \o <<DigitChar[(n % 10) + 1]>>

\* s[a:b] with 0 <= a, 0 <= b (Python clips b to len(s))
Slice(s, a, b) == SubSeq(s, a + 1, Min(b, Len(s)))

\* s[a:]
SliceFrom(s, a) == SubSeq(s, a + 1, Len(s))

\* s[:-n]
SliceDropLast(s, n) == SubSeq(s, 1, Len(s) - n)

\* s[-n:]
SliceLast(s, n) == IF Len(s) <= n THEN s ELSE SubSeq(s, Len(s) - n + 1, Len(s))

Zeros(n) == [i \in 1..n |-> "0"]

\* str.zfill(width): a leading sign stays in front of the padding
zfill(s, width) ==
    IF Len(s) >= width THEN s
    ELSE IF Len(s) > 0 /\ Head(s) \in {"+", "-"}
         THEN <<Head(s)>> \o Zeros(width - Len(s)) \o Tail(s)
         ELSE Zeros(width - Len(s)) \o s

(* --------------------------- identifier codec -------------------------- *)
IsDigit(c) == c \in Digits

\* variant: the zfill(14) is left out
cnpj_only_digits_nopad(cnpj) == SelectSeq(cnpj, IsDigit)

cnpj_only_digits(cnpj) ==
    LET only_digits == SelectSeq(cnpj, IsDigit)
    IN  IF only_digits = <<>> THEN only_digits ELSE zfill(only_digits, CnpjLen)

weights == <<6, 5, 4, 3, 2, 9, 8, 7, 6, 5, 4, 3, 2>>

\* sum(int(num) * weight for num, weight in zip(s, w))
RECURSIVE ZipSum(_, _)
ZipSum(s, w) ==
    IF s = <<>> \/ w = <<>> THEN 0
    ELSE DigitVal(Head(s)) * Head(w) + ZipSum(Tail(s), Tail(w))

\* variant: the test is sum_remainder <= 2
calculate_cnpj_dv_digit_le2(cnpj_without_dv, first_digit) ==
    LET w == IF first_digit = <<>> THEN Tail(weights) ELSE weights
        cnpj_to_weight == cnpj_without_dv \o first_digit
        sum_remainder == ZipSum(cnpj_to_weight, w) % 11
    IN  IF sum_remainder <= 2 THEN <<"0">> ELSE Str(11 - sum_remainder)

calculate_cnpj_dv_digit(cnpj_without_dv, first_digit) ==
    LET w == IF first_digit = <<>> THEN Tail(weights) ELSE weights
        cnpj_to_weight == cnpj_without_dv \o first_digit
        sum_remainder == ZipSum(cnpj_to_weight, w) % 11
    IN  IF sum_remainder < 2 THEN <<"0">> ELSE Str(11 - sum_remainder)

generate_cnpj_dv(cnpj_without_dv) ==
    LET first_digit == calculate_cnpj_dv_digit(cnpj_without_dv, <<>>)
        second_digit == calculate_cnpj_dv_digit(cnpj_without_dv, first_digit)
    IN  first_digit \o second_digit

\* variant: digits beyond 14 are cut off instead of rejected
is_valid_cnpj_truncating(cnpj) ==
    LET cnpj_only_digits_ == SliceLast(cnpj_only_digits(cnpj), CnpjLen)
    IN  IF cnpj_only_digits_ = <<>> THEN FALSE
        ELSE SliceLast(cnpj_only_digits_, 2)
                 = generate_cnpj_dv(SliceDropLast(cnpj_only_digits_, 2))

\* variant: only the first check digit is compared
is_valid_cnpj_first_dv_only(cnpj) ==
    LET cnpj_only_digits_ == cnpj_only_digits(cnpj)
    IN  IF cnpj_only_digits_ = <<>> \/ Len(cnpj_only_digits_) > CnpjLen THEN FALSE
        ELSE Slice(cnpj_only_digits_, 12, 13)
                 = Slice(generate_cnpj_dv(SliceDropLast(cnpj_only_digits_, 2)), 0, 1)

is_valid_cnpj(cnpj) ==
    LET cnpj_only_digits_ == cnpj_only_digits(cnpj)
    IN  IF cnpj_only_digits_ = <<>> \/ Len(cnpj_only_digits_) > CnpjLen THEN FALSE
        ELSE LET cnpj_without_dv == SliceDropLast(cnpj_only_digits_, 2)
                 generated_dv == generate_cnpj_dv(cnpj_without_dv)
             IN  SliceLast(cnpj_only_digits_, 2) = generated_dv

\* variant: the first three slices are cut at 3 and 6
format_full_cnpj_misaligned(cnpj) ==
    LET d == cnpj_only_digits(cnpj)
    IN  Slice(d, 0, 3) \o <<".">> \o Slice(d, 3, 6) \o <<".">> \o Slice(d, 6, 8)
            \o <<"/">> \o Slice(d, 8, 12) \o <<"-">> \o SliceFrom(d, 12)

format_full_cnpj(cnpj) ==
    LET d == cnpj_only_digits(cnpj)
    IN  Slice(d, 0, 2) \o <<".">> \o Slice(d, 2, 5) \o <<".">> \o Slice(d, 5, 8)
            \o <<"/">> \o Slice(d, 8, 12) \o <<"-">> \o SliceFrom(d, 12)

\* variant: the order slice is [8:11]
split_cnpj_short_order(cnpj) ==
    LET d == cnpj_only_digits(cnpj)
    IN  <<Slice(d, 0, 8), Slice(d, 8, 11), SliceFrom(d, 12)>>

split_cnpj(cnpj) ==
    LET d == cnpj_only_digits(cnpj)
    IN  <<Slice(d, 0, 8), Slice(d, 8, 12), SliceFrom(d, 12)>>

unsplit_cnpj(cnpj_basico, cnpj_ordem, cnpj_dv) ==
    zfill(cnpj_basico, 8) \o zfill(cnpj_ordem, 4) \o zfill(cnpj_dv, 2)

(* ------------------------------ row mapper ----------------------------- *)
NoneCell == [kind |-> "null", repr |-> ""]

StrCell(text) == [kind |-> "str", repr |-> text]

IntCell(text) == [kind |-> "int", repr |-> text]

always_str_or_none(data) ==
    IF (data.kind = "str" /\ data.repr = "None")
         \/ (data.kind = "str" /\ data.repr = "")
         \/ data.kind = "null"
    THEN NoneCell
    ELSE IF data.kind # "str" THEN StrCell(data.repr)
    ELSE data

\* formatted_data[k] of the source is formatted_data[k + 1] here
format_company_data(data, cnpj) ==
    LET cnpj_only_digits_ == cnpj_only_digits(cnpj)
        parts == split_cnpj(cnpj)
        full_cnpj == format_full_cnpj(cnpj)
        formatted_data == [i \in DOMAIN data |-> always_str_or_none(data[i])]
    IN  [ cnpj_basico |-> parts[1],
          cnpj_ordem |-> parts[2],
          cnpj_dv |-> parts[3],
          cnpj_completo |-> full_cnpj,
          cnpj_completo_apenas_numeros |-> cnpj_only_digits_,
          identificador_matriz_filial |-> formatted_data[4],
          nome_fantasia |-> formatted_data[5],
          situacao_cadastral |-> formatted_data[6],
          data_situacao_cadastral |-> formatted_data[7],
          motivo_situacao_cadastral |-> formatted_data[8],
          nome_cidade_exterior |-> formatted_data[9],
          data_inicio_atividade |-> formatted_data[10],
          cnae_fiscal_secundario |-> formatted_data[11],
          tipo_logradouro |-> formatted_data[12],
          logradouro |-> formatted_data[13],
          numero |-> formatted_data[14],
          complemento |-> formatted_data[15],
          bairro |-> formatted_data[16],
          cep |-> formatted_data[17],
          uf |-> formatted_data[18],
          ddd_telefone_1 |-> formatted_data[19],
          ddd_telefone_2 |-> formatted_data[20],
          ddd_telefone_fax |-> formatted_data[21],
          correio_eletronico |-> formatted_data[22],
          situacao_especial |-> formatted_data[23],
          data_situacao_especial |-> formatted_data[24],
          pais |-> formatted_data[25],
          municipio |-> formatted_data[26],
          razao_social |-> formatted_data[27],
          natureza_juridica |-> formatted_data[28],
          qualificacao_do_responsavel |-> formatted_data[29],
          capital_social |-> formatted_data[30],
          porte |-> formatted_data[31],
          ente_federativo_responsavel |-> formatted_data[32],
          opcao_pelo_simples |-> formatted_data[33],
          data_opcao_pelo_simples |-> formatted_data[34],
          data_exclusao_pelo_simples |-> formatted_data[35],
          opcao_pelo_mei |-> formatted_data[36],
          data_opcao_pelo_mei |-> formatted_data[37],
          data_exclusao_pelo_mei |-> formatted_data[38],
          cnae |-> formatted_data[39] ]

format_partner_data(data, cnpj) ==
    LET cnpj_only_digits_ == cnpj_only_digits(cnpj)
        parts == split_cnpj(cnpj)
        full_cnpj == format_full_cnpj(cnpj)
        formatted_data == [i \in DOMAIN data |-> always_str_or_none(data[i])]
    IN  [ cnpj_basico |-> parts[1],
          cnpj_ordem |-> parts[2],
          cnpj_dv |-> parts[3],
          cnpj_completo |-> full_cnpj,
          cnpj_completo_apenas_numeros |-> cnpj_only_digits_,
          identificador_socio |-> formatted_data[2],
          razao_social |-> formatted_data[3],
          cnpj_cpf_socio |-> formatted_data[4],
          qualificacao_socio |-> formatted_data[5],
          data_entrada_sociedade |-> formatted_data[6],
          pais_socio_estrangeiro |-> formatted_data[7],
          numero_cpf_representante_legal |-> formatted_data[8],
          nome_representante_legal |-> formatted_data[9],
          qualificacao_representante_legal |-> formatted_data[10],
          faixa_etaria |-> formatted_data[11] ]

(* ------------------------------- inputs -------------------------------- *)
\* 12-digit bases (base8 + order4) the inputs are cut from
Stem1 == <<"1","1","2","2","2","3","3","3","0","0","0","1">>

Stem2 == <<"1","2","3","4","5","6","7","8","9","0","1","2">>

Stem3 == <<"0","0","0","0","0","0","0","0","0","0","1","9">>

Stems == {Stem1, Stem2, Stem3}

\* every string of at most two digits
Tails == {<<>>} \cup {<<a>> : a \in Digits} \cup {<<a, b>> : a, b \in Digits}

\* digit strings of length 0..14: the last k digits of a stem, then a tail
ShortInputs ==
    {SliceLast(st, k) \o t : st \in Stems, k \in 1..12, t \in Tails} \cup Tails

\* full 14-digit strings, with right and with wrong check digits
Cores ==
    {st \o t : st \in Stems,
               t \in {<<"8","1">>, <<"3","0">>, <<"1","0">>, <<"3","4">>}}

\* the strings over {"0", "5"} of length at most n
RECURSIVE ExtraStrings(_)
ExtraStrings(n) ==
    IF n = 0 THEN {<<>>}
    ELSE LET shorter == ExtraStrings(n - 1)
         IN  shorter \cup {e \o <<c>> : e \in shorter, c \in {"0", "5"}}

\* 15..14+MaxExtra digits: a full string with digits put before or after it
Overlong ==
    LET padded == {pre \o c \o post : c \in Cores,
                                      pre \in ExtraStrings(MaxExtra),
                                      post \in ExtraStrings(MaxExtra)}
    IN  {s \in padded : Len(s) > CnpjLen /\ Len(s) <= CnpjLen + MaxExtra}

\* the same digits written with the punctuation of a printed CNPJ
Punctuate(s) ==
    Slice(s, 0, 2) \o <<".">> \o Slice(s, 2, 5) \o <<".">> \o Slice(s, 5, 8)
        \o <<"/">> \o Slice(s, 8, 12) \o <<"-">> \o SliceFrom(s, 12)

Inputs ==
    LET plain == ShortInputs \cup Overlong
    IN  plain \cup {Punctuate(s) : s \in plain}

\* rows of resposta_cnpj: 39 columns, the first three the row's own identifier
CompanyRowA ==
    [i \in 1..CompanyCols |->
        CASE i = 1 -> StrCell("99999999")
          [] i = 2 -> StrCell("0009")
          [] i = 3 -> StrCell("99")
          [] i = 4 -> IntCell("1")
          [] i = 5 -> StrCell("ACME")
          [] i = 6 -> StrCell("None")
          [] i = 7 -> StrCell("")
          [] i = CompanyCols -> IntCell("6201501")
          [] OTHER -> NoneCell]

CompanyRowB ==
    [i \in 1..CompanyCols |->
        CASE i = 1 -> StrCell("11222333")
          [] i = 4 -> IntCell("2")
          [] i = 5 -> StrCell("FILIAL")
          [] i = 6 -> IntCell("8")
          [] i = CompanyCols -> StrCell("None")
          [] OTHER -> StrCell("x")]

CompanyRows == {CompanyRowA, CompanyRowB}

\* rows of resposta_socios: 11 columns, the first the row's own base
PartnerRowA ==
    [i \in 1..PartnerCols |->
        CASE i = 1 -> StrCell("99999999")
          [] i = 2 -> IntCell("2")
          [] i = 3 -> StrCell("ANA")
          [] i = PartnerCols -> IntCell("5")
          [] OTHER -> NoneCell]

PartnerRowB ==
    [i \in 1..PartnerCols |->
        CASE i = 2 -> IntCell("1")
          [] i = 3 -> StrCell("BETO LTDA")
          [] i = 4 -> StrCell("None")
          [] i = 5 -> StrCell("")
          [] OTHER -> StrCell("x")]

PartnerRows == {PartnerRowA, PartnerRowB}

\* the sequences of at most n rows drawn from a table
RECURSIVE RowSeqs(_, _)
RowSeqs(table, n) ==
    IF n = 0 THEN {<<>>}
    ELSE LET shorter == RowSeqs(table, n - 1)
         IN  shorter \cup {Append(rs, r) : rs \in shorter, r \in table}

\* what SELECT * FROM <table of the command> can yield
ResultSets(operation) ==
    IF operation = "get_company" THEN RowSeqs(CompanyRows, MaxRows)
    ELSE RowSeqs(PartnerRows, MaxRows)

(* -------------------------------- state -------------------------------- *)
VARIABLES
    pc,                \* "idle", "select", "execute", "fetch", "done"
    op,                \* the method being run
    cnpj,              \* its argument
    data,              \* the query parameters built from the argument
    lookup_started,    \* _select has been entered by this call
    open_connections,  \* connections made by connect() and not closed
    conn_ref,          \* the generator frame of this call holds a connection
    cursor_open,       \* the cursor of the with block is open
    rowset,            \* rows of the query's result set, in the store's order
    rownumber,         \* how many of them the cursor has yielded
    result,            \* rows list() has collected so far
    outcome,           \* "none", "return", "InvalidCNPJException", "RowSourceError"
    ret                \* the value returned

vars == <<pc, op, cnpj, data, lookup_started, open_connections, conn_ref,
          cursor_open, rowset, rownumber, result, outcome, ret>>

NoData == [cnpj_basico |-> <<>>]

NoRet == [kind |-> "unset", count |-> 0, items |-> <<>>]

Init ==
    /\ pc = "idle"
    /\ op = "none"
    /\ cnpj = <<>>
    /\ data = NoData
    /\ lookup_started = FALSE
    /\ open_connections = 0
    /\ conn_ref = FALSE
    /\ cursor_open = FALSE
    /\ rowset = <<>>
    /\ rownumber = 0
    /\ result = <<>>
    /\ outcome = "none"
    /\ ret = NoRet

(* ------------------------------ operations ----------------------------- *)
\* variant: get_company without the validity test
get_company_unchecked(x) ==
    /\ pc = "idle"
    /\ op' = "get_company"
    /\ cnpj' = x
    /\ LET parts == split_cnpj(x)
       IN  data' = [cnpj_basico |-> parts[1], cnpj_ordem |-> parts[2],
                    cnpj_dv |-> parts[3]]
    /\ pc' = "select"
    /\ UNCHANGED <<lookup_started, open_connections, conn_ref, cursor_open,
                   rowset, rownumber, result, outcome, ret>>

\* get_company up to the call of _select
get_company(x) ==
    /\ pc = "idle"
    /\ op' = "get_company"
    /\ cnpj' = x
    /\ IF ~is_valid_cnpj(x)
       THEN /\ outcome' = "InvalidCNPJException"
            /\ pc' = "done"
            /\ UNCHANGED data
       ELSE /\ LET parts == split_cnpj(x)
               IN  data' = [cnpj_basico |-> parts[1], cnpj_ordem |-> parts[2],
                            cnpj_dv |-> parts[3]]
            /\ pc' = "select"
            /\ UNCHANGED outcome
    /\ UNCHANGED <<lookup_started, open_connections, conn_ref, cursor_open,
                   rowset, rownumber, result, ret>>

\* get_partners up to the call of _select
get_partners(x) ==
    /\ pc = "idle"
    /\ op' = "get_partners"
    /\ cnpj' = x
    /\ IF ~is_valid_cnpj(x)
       THEN /\ outcome' = "InvalidCNPJException"
            /\ pc' = "done"
            /\ UNCHANGED data
       ELSE /\ data' = [cnpj_basico |-> split_cnpj(x)[1]]
            /\ pc' = "select"
            /\ UNCHANGED outcome
    /\ UNCHANGED <<lookup_started, open_connections, conn_ref, cursor_open,
                   rowset, rownumber, result, ret>>

\* _select, first next(): psycopg2.connect succeeds, or raises
select_connect ==
    /\ pc = "select"
    /\ lookup_started' = TRUE
    /\ \/ /\ open_connections < MaxConnections
          /\ open_connections' = open_connections + 1
          /\ conn_ref' = TRUE
          /\ pc' = "execute"
          /\ UNCHANGED outcome
       \/ /\ outcome' = "RowSourceError"
          /\ pc' = "done"
          /\ UNCHANGED <<open_connections, conn_ref>>
    /\ UNCHANGED <<op, cnpj, data, cursor_open, rowset, rownumber, result, ret>>

\* _select: with connection.cursor() as cursor: cursor.execute(command, data)
select_execute ==
    /\ pc = "execute"
    /\ \/ \E rows \in ResultSets(op) :
             /\ rowset' = rows
             /\ cursor_open' = TRUE
             /\ pc' = "fetch"
             /\ UNCHANGED outcome
       \/ /\ cursor_open' = FALSE
          /\ outcome' = "RowSourceError"
          /\ pc' = "done"
          /\ UNCHANGED rowset
    /\ UNCHANGED <<op, cnpj, data, lookup_started, open_connections, conn_ref,
                   rownumber, result, ret>>

\* variant: rows are collected in reverse
select_fetch_prepend ==
    /\ pc = "fetch"
    /\ rownumber < Len(rowset)
    /\ result' = <<rowset[rownumber + 1]>> \o result
    /\ rownumber' = rownumber + 1
    /\ UNCHANGED <<pc, op, cnpj, data, lookup_started, open_connections,
                   conn_ref, cursor_open, rowset, outcome, ret>>

\* _select: for entry in cursor: yield entry, collected by list(); fetching
\* the next row may raise, and the with block then closes the cursor
select_fetch ==
    /\ pc = "fetch"
    /\ rownumber < Len(rowset)
    /\ \/ /\ result' = Append(result, rowset[rownumber + 1])
          /\ rownumber' = rownumber + 1
          /\ UNCHANGED <<pc, cursor_open, outcome>>
       \/ /\ cursor_open' = FALSE
          /\ outcome' = "RowSourceError"
          /\ pc' = "done"
          /\ UNCHANGED <<rownumber, result>>
    /\ UNCHANGED <<op, cnpj, data, lookup_started, open_connections, conn_ref,
                   rowset, ret>>

\* variant: the last row is mapped
get_company_return_last ==
    /\ pc = "fetch"
    /\ op = "get_company"
    /\ rownumber = Len(rowset)
    /\ cursor_open' = FALSE
    /\ conn_ref' = FALSE
    /\ ret' = IF result = <<>> THEN [kind |-> "None", count |-> 0, items |-> <<>>]
              ELSE [kind |-> "Company", count |-> 1,
                    items |-> <<format_company_data(result[Len(result)], cnpj)>>]
    /\ outcome' = "return"
    /\ pc' = "done"
    /\ UNCHANGED <<op, cnpj, data, lookup_started, open_connections, rowset,
                   rownumber, result>>

\* the cursor is exhausted: the with block closes the cursor, the generator
\* returns and drops its frame; get_company maps result[0]
get_company_return ==
    /\ pc = "fetch"
    /\ op = "get_company"
    /\ rownumber = Len(rowset)
    /\ cursor_open' = FALSE
    /\ conn_ref' = FALSE
    /\ ret' = IF result = <<>> THEN [kind |-> "None", count |-> 0, items |-> <<>>]
              ELSE [kind |-> "Company", count |-> 1,
                    items |-> <<format_company_data(result[1], cnpj)>>]
    /\ outcome' = "return"
    /\ pc' = "done"
    /\ UNCHANGED <<op, cnpj, data, lookup_started, open_connections, rowset,
                   rownumber, result>>

\* the same for get_partners, which maps every row
get_partners_return ==
    /\ pc = "fetch"
    /\ op = "get_partners"
    /\ rownumber = Len(rowset)
    /\ cursor_open' = FALSE
    /\ conn_ref' = FALSE
    /\ ret' = [kind |-> "Partners", count |-> Len(result),
               items |-> [i \in 1..Len(result) |->
                             format_partner_data(result[i], cnpj)]]
    /\ outcome' = "return"
    /\ pc' = "done"
    /\ UNCHANGED <<op, cnpj, data, lookup_started, open_connections, rowset,
                   rownumber, result>>

\* the caller has the result or the exception and drops it: nothing of the
\* call is referenced any more
call_exit ==
    /\ pc = "done"
    /\ pc' = "idle"
    /\ op' = "none"
    /\ cnpj' = <<>>
    /\ data' = NoData
    /\ lookup_started' = FALSE
    /\ conn_ref' = FALSE
    /\ cursor_open' = FALSE
    /\ rowset' = <<>>
    /\ rownumber' = 0
    /\ result' = <<>>
    /\ outcome' = "none"
    /\ ret' = NoRet
    /\ UNCHANGED open_connections

\* no code closes the connection: an unreferenced connection object is
\* closed when the garbage collector finalizes it, at a time of its choosing
gc_finalize ==
    /\ open_connections > (IF conn_ref THEN 1 ELSE 0)
    /\ open_connections' = open_connections - 1
    /\ UNCHANGED <<pc, op, cnpj, data, lookup_started, conn_ref, cursor_open,
                   rowset, rownumber, result, outcome, ret>>

\* a caller that is not inside a call makes one, with any argument
Next ==
    \/ pc = "idle" /\ \E x \in Inputs : get_company(x)
    \/ pc = "idle" /\ \E x \in Inputs : get_partners(x)
    \/ select_connect
    \/ select_execute
    \/ select_fetch
    \/ get_company_return
    \/ get_partners_return
    \/ call_exit
    \/ gc_finalize

Spec == Init /\ [][Next]_vars

TypeOK ==
    /\ pc \in {"idle", "select", "execute", "fetch", "done"}
    /\ open_connections \in 0..MaxConnections
    /\ rownumber \in 0..Len(rowset)
    /\ Len(rowset) <= MaxRows
    /\ Len(result) = rownumber

(* ------------------------- properties of the code ---------------------- *)
\* a call is in progress or has just ended: cnpj is an argument
InCall == pc # "idle"

AllDigits(s) == \A i \in DOMAIN s : s[i] \in Digits

DigitCount(s) == Cardinality({i \in DOMAIN s : s[i] \in Digits})

\* the digits of s, left-padded with zeros to 14 (s has at most 14 digits)
Padded(s) ==
    LET ds == SelectSeq(s, IsDigit) IN [i \in 1..(14 - Len(ds)) |-> "0"] \o ds

Valid14 == Stem1 \o <<"8", "1">>

WrongDv14 == Stem2 \o <<"3", "4">>

C2_CompanyFromFirstRow ==
    (pc = "done" /\ op = "get_company" /\ outcome = "return") =>
        /\ is_valid_cnpj(cnpj)
        /\ (ret.kind = "None") <=> (rowset = <<>>)
        /\ rowset # <<>> =>
              /\ ret.kind = "Company"
              /\ ret.items = <<format_company_data(rowset[1], cnpj)>>
              /\ ret.items[1].nome_fantasia = always_str_or_none(rowset[1][5])

C2_Witness ==
    /\ pc = "done" /\ op = "get_company" /\ outcome = "return"
    /\ Len(rowset) >= 2 /\ rowset[1] # rowset[Len(rowset)]
    /\ ret.kind = "Company"

\* C3: get_partners with a valid argument and rows r1..rn returns (n, [p1..pn])
\* with pi the Partner mapped from ri, in the order of the rows; no rows give
\* (0, []).
C3_PartnersInRowOrder ==
    (pc = "done" /\ op = "get_partners" /\ outcome = "return") =>
        /\ ret.kind = "Partners"
        /\ ret.count = Len(rowset)
        /\ Len(ret.items) = ret.count
        /\ \A i \in 1..Len(rowset) :
              /\ ret.items[i] = format_partner_data(rowset[i], cnpj)
              /\ ret.items[i].razao_social = always_str_or_none(rowset[i][3])

C3_Witness ==
    /\ pc = "done" /\ op = "get_partners" /\ outcome = "return"
    /\ ret.count = 3
    /\ rowset = <<PartnerRowB, PartnerRowA, PartnerRowB>>

\* C4: whenever a call has returned or raised, no connection it acquired is
\* still open; between calls no connection is open.
C4_ConnectionReleasedAtExit ==
    pc \in {"done", "idle"} => open_connections = 0

\* C5: an argument with more than 14 digit characters is invalid, whatever
\* check digits any 14 of its digits carry.
C5_OverlongInvalid ==
    (InCall /\ DigitCount(cnpj) > 14) =>
        /\ ~is_valid_cnpj(cnpj)
        /\ pc = "done"
        /\ outcome = "InvalidCNPJException"

C5_Witness ==
    /\ pc = "done" /\ op = "get_company"
    /\ cnpj = <<"0">> \o Valid14
    /\ outcome = "InvalidCNPJException"

\* C6 as claimed: for digit strings of length 0..14, the empty string
\* included, isValid holds iff the last two digits of the string left-padded
\* to 14 equal checkDigits of the 12 before them.
C6_ValidIffCheckDigits_Claimed ==
    (InCall /\ AllDigits(cnpj) /\ Len(cnpj) <= 14) =>
        (is_valid_cnpj(cnpj) <=>
            SubSeq(Padded(cnpj), 13, 14) = generate_cnpj_dv(SubSeq(Padded(cnpj), 1, 12)))

\* C6 amended: the equivalence holds for digit strings of length 1..14; the
\* empty string is invalid.
C6_ValidIffCheckDigits ==
    /\ (InCall /\ AllDigits(cnpj) /\ Len(cnpj) \in 1..14) =>
          (is_valid_cnpj(cnpj) <=>
              SubSeq(Padded(cnpj), 13, 14)
                  = generate_cnpj_dv(SubSeq(Padded(cnpj), 1, 12)))
    /\ (InCall /\ cnpj = <<>>) => ~is_valid_cnpj(cnpj)

C6_Witness ==
    /\ pc = "select" /\ AllDigits(cnpj) /\ Len(cnpj) = 3
    /\ is_valid_cnpj(cnpj)

\* C7: the identifier fields of every returned entity are functions of the
\* argument alone: base, order and check digits are the slices of its padded
\* digits, cnpj_completo_apenas_numeros is the padded digits and cnpj_completo
\* is NN.NNN.NNN/NNNN-NN; "11222333000181" gives "11.222.333/0001-81".
C7_IdentifierFieldsFromArgument ==
    (pc = "done" /\ outcome = "return") =>
        /\ \A i \in 1..Len(ret.items) :
              LET e == ret.items[i]
                  d == Padded(cnpj)
              IN  /\ e.cnpj_basico = SubSeq(d, 1, 8)
                  /\ e.cnpj_ordem = SubSeq(d, 9, 12)
                  /\ e.cnpj_dv = SubSeq(d, 13, 14)
                  /\ e.cnpj_completo_apenas_numeros = d
                  /\ e.cnpj_completo =
                        <<d[1], d[2], ".", d[3], d[4], d[5], ".", d[6], d[7], d[8],
                          "/", d[9], d[10], d[11], d[12], "-", d[13], d[14]>>
        /\ (cnpj = Valid14 /\ ret.kind = "Company") =>
              ret.items[1].cnpj_completo =
                  <<"1","1",".","2","2","2",".","3","3","3","/",
                    "0","0","0","1","-","8","1">>

C7_Witness ==
    /\ pc = "done" /\ op = "get_company" /\ outcome = "return"
    /\ cnpj = Valid14
    /\ rowset = <<CompanyRowA>>
    /\ ret.kind = "Company"
    /\ ret.items[1].cnpj_basico # <<"9","9","9","9","9","9","9","9">>

\* C8 as claimed: for every argument, the length of digitsOnly is 0 or 14.
C8_OnlyDigitsLength_Claimed ==
    InCall => Len(cnpj_only_digits(cnpj)) \in {0, 14}

\* C8 amended: for an argument with at most 14 digit characters the length of
\* digitsOnly is 0 or 14; with more, it is the number of digit characters.
C8_OnlyDigitsLength ==
    InCall =>
        /\ DigitCount(cnpj) <= 14 => Len(cnpj_only_digits(cnpj)) \in {0, 14}
        /\ DigitCount(cnpj) > 14 => Len(cnpj_only_digits(cnpj)) = DigitCount(cnpj)
        /\ Len(cnpj_only_digits(cnpj)) = 0 <=> DigitCount(cnpj) = 0

C8_Witness ==
    /\ InCall
    /\ DigitCount(cnpj) = 5 /\ Len(cnpj) > 5
    /\ Len(cnpj_only_digits(cnpj)) = 14

FirstWeights == <<5, 4, 3, 2, 9, 8, 7, 6, 5, 4, 3, 2>>

SecondWeights == <<6, 5, 4, 3, 2, 9, 8, 7, 6, 5, 4, 3, 2>>

\* the sum of the first n digits of s, each times its weight
RECURSIVE WeightedSum(_, _, _)
WeightedSum(s, w, n) ==
    IF n = 0 THEN 0 ELSE DigitVal(s[n]) * w[n] + WeightedSum(s, w, n - 1)

FirstRemainder(base) == WeightedSum(base, FirstWeights, 12) % 11

DvChar(r) == IF r < 2 THEN "0" ELSE DigitChar[(11 - r) + 1]

SecondRemainder(base) ==
    WeightedSum(base \o <<DvChar(FirstRemainder(base))>>, SecondWeights, 13) % 11

\* the 12-digit base validation computes check digits for
Base12 == SubSeq(Padded(cnpj), 1, 12)

\* C9: for the 12-digit base of every argument that validation computes check
\* digits for, checkDigits is two digit characters: the first from the sum
\* with weights 5,4,3,2,9,8,7,6,5,4,3,2 mod 11, the second from the sum over
\* base + first digit with weights 6,5,4,3,2,9,8,7,6,5,4,3,2 mod 11, each "0"
\* for a remainder below 2 and 11 - remainder otherwise.
C9_CheckDigits ==
    (InCall /\ DigitCount(cnpj) \in 1..14) =>
        /\ generate_cnpj_dv(Base12)
              = <<DvChar(FirstRemainder(Base12)), DvChar(SecondRemainder(Base12))>>
        /\ Len(generate_cnpj_dv(Base12)) = 2
        /\ AllDigits(generate_cnpj_dv(Base12))

C9_Witness ==
    /\ pc = "select" /\ cnpj = Stem2 \o <<"3", "0">>
    /\ FirstRemainder(Base12) = 8
    /\ SecondRemainder(Base12) = 0
    /\ generate_cnpj_dv(Base12) = <<"3", "0">>

\* C10 as claimed: join(split(x)) = digitsOnly(x) for every digit string x of
\* length 0..14.
C10_SplitJoinRoundTrip_Claimed ==
    (InCall /\ AllDigits(cnpj) /\ Len(cnpj) <= 14) =>
        unsplit_cnpj(split_cnpj(cnpj)[1], split_cnpj(cnpj)[2], split_cnpj(cnpj)[3])
            = cnpj_only_digits(cnpj)

\* C10 amended: the round trip holds for every digit string of length 1..14.
C10_SplitJoinRoundTrip ==
    (InCall /\ AllDigits(cnpj) /\ Len(cnpj) \in 1..14) =>
        /\ unsplit_cnpj(split_cnpj(cnpj)[1], split_cnpj(cnpj)[2], split_cnpj(cnpj)[3])
              = cnpj_only_digits(cnpj)
        /\ Len(split_cnpj(cnpj)[1]) = 8
        /\ Len(split_cnpj(cnpj)[2]) = 4
        /\ Len(split_cnpj(cnpj)[3]) = 2

C10_Witness ==
    /\ pc = "select" /\ op = "get_company"
    /\ AllDigits(cnpj) /\ Len(cnpj) = 13
    /\ data.cnpj_basico = <<"0">> \o SubSeq(cnpj, 1, 7)
    /\ unsplit_cnpj(data.cnpj_basico, data.cnpj_ordem, data.cnpj_dv) = <<"0">> \o cnpj

====
